---- MODULE Spec2Model ----
(***************************************************************************)
(* Universal SCPI GUI: the alias-based instrument registry                 *)
(* (universal_pyvisa.py, class upyvisa) and the request handlers that      *)
(* drive it (app.py).                                                      *)
(*                                                                         *)
(* Python strings are sequences of one-character strings, so that strip,   *)
(* casefold, split and join are computed and not assumed.  Python's None   *)
(* is the one-element tuple <<"None">>, which is no string of characters.  *)
(***************************************************************************)
EXTENDS Integers, Sequences, FiniteSets, TLC

(* ------------------------------------------------------------------ *)
(* Strings                                                            *)
(* ------------------------------------------------------------------ *)

None == <<"None">>

\* "": the empty str
Empty == << >>

\* str.isspace for one character (the characters the model's inputs use)
IsSpace(c) == c \in {" ", "\t", "\n", "\r"}

UpperCase ==
    <<"A", "B", "C", "D", "E", "F", "G", "H", "I", "J", "K", "L", "M",
      "N", "O", "P", "Q", "R", "S", "T", "U", "V", "W", "X", "Y", "Z">>
LowerCase ==
    <<"a", "b", "c", "d", "e", "f", "g", "h", "i", "j", "k", "l", "m",
      "n", "o", "p", "q", "r", "s", "t", "u", "v", "w", "x", "y", "z">>

\* str.casefold for one character (ASCII)
CaseFoldChar(c) ==
    IF \E i \in 1..26 : UpperCase[i] = c
        THEN LowerCase[CHOOSE i \in 1..26 : UpperCase[i] = c]
        ELSE c

\* str.casefold()
casefold(s) == [i \in 1..Len(s) |-> CaseFoldChar(s[i])]

\* str.lower(): the same on ASCII
lower(s) == [i \in 1..Len(s) |-> CaseFoldChar(s[i])]

\* str.strip(): drop leading and trailing whitespace
strip(s) ==
    LET keep == {i \in 1..Len(s) : ~IsSpace(s[i])}
    IN  IF keep = {} THEN Empty
        ELSE LET lo == CHOOSE i \in keep : \A j \in keep : i <= j
                 hi == CHOOSE i \in keep : \A j \in keep : j <= i
             IN  SubSeq(s, lo, hi)

\* str.count(c) for a one-character c
count(s, c) == Cardinality({i \in 1..Len(s) : s[i] = c})

\* c in s, for a one-character c
Contains(s, c) == \E i \in 1..Len(s) : s[i] = c

\* str.split(sep) for a one-character sep: every part, the empty ones too
RECURSIVE split(_, _)
split(s, sep) ==
    IF ~Contains(s, sep) THEN <<s>>
    ELSE LET k == CHOOSE i \in 1..Len(s) :
                      s[i] = sep /\ \A j \in 1..(i - 1) : s[j] # sep
         IN  <<SubSeq(s, 1, k - 1)>> \o split(SubSeq(s, k + 1, Len(s)), sep)

\* str.split(sep, 1): at most one split, at the first sep
split1(s, sep) ==
    IF ~Contains(s, sep) THEN <<s>>
    ELSE LET k == CHOOSE i \in 1..Len(s) :
                      s[i] = sep /\ \A j \in 1..(i - 1) : s[j] # sep
         IN  <<SubSeq(s, 1, k - 1), SubSeq(s, k + 1, Len(s))>>

\* str.split(): split on runs of whitespace, no empty part
RECURSIVE split_ws(_)
split_ws(s) ==
    LET t == strip(s)
    IN  IF t = Empty THEN << >>
        ELSE IF \A i \in 1..Len(t) : ~IsSpace(t[i]) THEN <<t>>
        ELSE LET k == CHOOSE i \in 1..Len(t) :
                          IsSpace(t[i]) /\ \A j \in 1..(i - 1) : ~IsSpace(t[j])
             IN  <<SubSeq(t, 1, k - 1)>> \o split_ws(SubSeq(t, k + 1, Len(t)))

\* " ".join(parts)
RECURSIVE join_sp(_)
join_sp(parts) ==
    IF parts = << >> THEN Empty
    ELSE IF Len(parts) = 1 THEN parts[1]
    ELSE parts[1] \o <<" ">> \o join_sp(Tail(parts))

\* [f(p) for p in parts if keep]: the parts that are not empty after strip
RECURSIVE strip_nonempty(_)
strip_nonempty(parts) ==
    IF parts = << >> THEN << >>
    ELSE (IF strip(parts[1]) = Empty THEN << >> ELSE <<strip(parts[1])>>)
         \o strip_nonempty(Tail(parts))


(* ------------------------------------------------------------------ *)
(* Bounds and inputs                                                  *)
(* ------------------------------------------------------------------ *)

\* how many resource addresses rm.list_resources() enumerates
NumAddr == 2

\* how many request threads the server runs at once
NumThreads == 2

Threads == 1..NumThreads

Digit == <<"1", "2", "3", "4", "5", "6", "7", "8", "9">>

\* the resource names: serial (ASRL...) and addressed-bus ones in turn
ResourceName(i) ==
    IF i % 2 = 1 THEN <<"A", "S", "R", "L", Digit[i]>>
                 ELSE <<"G", "P", "I", "B", Digit[i]>>

\* rm.list_resources()
list_resources == [i \in 1..NumAddr |-> ResourceName(i)]

\* identity responses a device may give to *IDN?
IdnComma == <<"A", "C", "M", "E", ",", "M", "1", ",", "S", "1", ",", "7">>
IdnSpace == <<"a", "c", "m", "e", " ", "m", "1", " ", "s", "1", " ", "7">>
IdnOther == <<"A", "C", "M", "E", ",", "M", "2", ",", "S", "2", ",", "7">>
IdnTwoParts == <<"A", "C", "M", "E", " ", "M", "2", "\r", "\n">>
IdnShort == <<"A", "C", "M", "E", ",", "M", "1">>

\* what opening a resource and asking it *IDN? can end in
ScanOutcomes ==
    {[kind |-> "resp", text |-> x] :
        x \in {IdnComma, IdnSpace, IdnOther, IdnTwoParts, IdnShort}}
    \cup {[kind |-> "timeout", text |-> Empty], [kind |-> "error", text |-> Empty]}

\* the same, for the runs with several request threads
ScanOutcomesFew == {[kind |-> "resp", text |-> IdnComma]}

\* the JSON field "alias" of a request, as sent
AliasInputs == {<<"d">>, <<" ", "D", " ">>, <<"p">>, <<" ">>}
AliasInputsFew == {<<"d">>}

\* the JSON fields vendor, model, serial of a set_alias request, as sent
IdentInputs ==
    { <<<<" ", "a", "c", "m", "e", " ">>, <<"m", "1">>, <<"S", "1", " ", "7">>>>,
      <<<<"A", "C", "M", "E">>, <<"M", "2">>, <<"S", "2", " ", "7">>>>,
      <<<<"A", "C", "M", "E">>, <<"M", "1">>, <<"S", "2", " ", "7">>>>,
      <<<<"A", "C", "M", "E">>, <<"M", "2">>, <<" ">>>> }
IdentInputsFew ==
    { <<<<"A", "C", "M", "E">>, <<"m", "1">>, <<"S", "1", " ", "7">>>> }

(* ------------------------------------------------------------------ *)
(* universal_pyvisa.py                                                *)
(* ------------------------------------------------------------------ *)

\* str.startswith("ASRL")
startswith_ASRL(r) == Len(r) >= 4 /\ SubSeq(r, 1, 4) = <<"A", "S", "R", "L">>

\* the length an identity response must exceed to be taken
MinIdnLen == 8

\* Instrument.__init__: alias starts as None
Instrument(visa_name, dev_kind, vendor, model, serial) ==
    [visa_name |-> visa_name, dev_kind |-> dev_kind, vendor |-> vendor,
     model |-> model, serial |-> serial, alias |-> None]

\* find_instruments, lines 134-137: the parts of an identity response
idn_parts(response) ==
    IF count(response, ",") >= 3 THEN strip_nonempty(split(response, ","))
                                 ELSE split_ws(response)

\* find_instruments, lines 111-143: the instrument made from one response
instrument_of(r, response) ==
    LET parts == idn_parts(response)
        dev_kind == IF startswith_ASRL(r) THEN "SERIAL_115200_LF" ELSE "VISA"
        vendor == IF Len(parts) > 0 THEN parts[1] ELSE None
        model == IF Len(parts) > 1 THEN parts[2] ELSE None
        serial == IF Len(parts) > 2 THEN join_sp(SubSeq(parts, 3, Len(parts)))
                                    ELSE None
    IN  Instrument(r, dev_kind, vendor, model, serial)

\* the loop body were it to take only responses with vendor, model and serial
scan_one_strict(coll, r, outcome) ==
    IF outcome.kind = "resp" /\ Len(outcome.text) > MinIdnLen
       /\ Len(idn_parts(outcome.text)) > 2
        THEN Append(coll, instrument_of(r, outcome.text))
        ELSE coll

\* find_instruments, the body of the loop for one resource: the collection after
scan_one(coll, r, outcome) ==
    IF outcome.kind = "resp" /\ Len(outcome.text) > MinIdnLen
        THEN Append(coll, instrument_of(r, outcome.text))
        ELSE coll

\* x.strip().casefold() == y.strip().casefold()
same_text(x, y) == casefold(strip(x)) = casefold(strip(y))

\* set_alias's test were it to pass over an instrument that has an alias
\* already: a repeated call would then go on to the next instrument
alias_test_unaliased(instrument, vendor, model, serial) ==
    IF instrument.alias # None THEN "no"
    ELSE IF instrument.vendor = None THEN "raise"
    ELSE IF ~same_text(instrument.vendor, vendor) THEN "no"
    ELSE IF instrument.model = None THEN "raise"
    ELSE IF ~same_text(instrument.model, model) THEN "no"
    ELSE IF instrument.serial = None THEN "raise"
    ELSE IF ~same_text(instrument.serial, serial) THEN "no"
    ELSE "match"

\* set_alias, lines 160-164, for one instrument: "match", "no", or "raise"
\* (None has no strip(): AttributeError), with Python's left-to-right `and`
alias_test(instrument, vendor, model, serial) ==
    IF instrument.vendor = None THEN "raise"
    ELSE IF ~same_text(instrument.vendor, vendor) THEN "no"
    ELSE IF instrument.model = None THEN "raise"
    ELSE IF ~same_text(instrument.model, model) THEN "no"
    ELSE IF instrument.serial = None THEN "raise"
    ELSE IF ~same_text(instrument.serial, serial) THEN "no"
    ELSE "match"

\* set_alias: the index of the instrument the loop stops at, 0 when it runs out
set_alias_stop(coll, vendor, model, serial) ==
    LET hit == {i \in 1..Len(coll) : alias_test(coll[i], vendor, model, serial) # "no"}
    IN  IF hit = {} THEN 0 ELSE CHOOSE i \in hit : \A j \in hit : i <= j

\* set_alias were it to keep aliases unique: the alias is taken away from every
\* other instrument that carries it
set_alias_at_unique(coll, i, alias, vendor, model, serial) ==
    IF i = 0 THEN [ret |-> "-1", coll |-> coll]
    ELSE IF alias_test(coll[i], vendor, model, serial) = "raise"
        THEN [ret |-> "AttributeError", coll |-> coll]
        ELSE [ret |-> "1",
              coll |-> [j \in 1..Len(coll) |->
                          IF j = i THEN [coll[j] EXCEPT !.alias = alias]
                          ELSE IF coll[j].alias # None /\ same_text(coll[j].alias, alias)
                              THEN [coll[j] EXCEPT !.alias = None]
                              ELSE coll[j]]]

\* set_alias, lines 165-169, with the loop stopped at instrument i (0: ran out)
set_alias_at(coll, i, alias, vendor, model, serial) ==
    IF i = 0 THEN [ret |-> "-1", coll |-> coll]
    ELSE IF alias_test(coll[i], vendor, model, serial) = "raise"
        THEN [ret |-> "AttributeError", coll |-> coll]
        ELSE [ret |-> "1", coll |-> [coll EXCEPT ![i].alias = alias]]

\* set_alias: [ret: 1 | -1 | AttributeError, coll: the collection after]
set_alias(coll, alias, vendor, model, serial) ==
    set_alias_at(coll, set_alias_stop(coll, vendor, model, serial),
                 alias, vendor, model, serial)

\* query / write, lines 174-175 and 183: does this instrument answer to alias
alias_matches(instrument, alias) ==
    instrument.alias # None /\ same_text(instrument.alias, alias)


(* ------------------------------------------------------------------ *)
(* app.py: descriptors, parameter definitions, substitution           *)
(* ------------------------------------------------------------------ *)

IsDigit(c) == c \in {"0", "1", "2", "3", "4", "5", "6", "7", "8", "9"}

IsAsciiLetter(c) ==
    c \in {"a", "b", "c", "d", "e", "f", "g", "h", "i", "j", "k", "l", "m",
           "n", "o", "p", "q", "r", "s", "t", "u", "v", "w", "x", "y", "z",
           "A", "B", "C", "D", "E", "F", "G", "H", "I", "J", "K", "L", "M",
           "N", "O", "P", "Q", "R", "S", "T", "U", "V", "W", "X", "Y", "Z"}

DigitValue(c) ==
    CASE c = "0" -> 0 [] c = "1" -> 1 [] c = "2" -> 2 [] c = "3" -> 3 [] c = "4" -> 4
      [] c = "5" -> 5 [] c = "6" -> 6 [] c = "7" -> 7 [] c = "8" -> 8 [] OTHER -> 9

DigitChar(n) == <<"0", "1", "2", "3", "4", "5", "6", "7", "8", "9">>[n + 1]

\* int(digits) for a string of digits
RECURSIVE int_of(_)
int_of(ds) ==
    IF ds = Empty THEN 0
    ELSE 10 * int_of(SubSeq(ds, 1, Len(ds) - 1)) + DigitValue(ds[Len(ds)])

\* str(n) for n >= 0
RECURSIVE str_of(_)
str_of(n) == IF n < 10 THEN <<DigitChar(n)>> ELSE str_of(n \div 10) \o <<DigitChar(n % 10)>>

RECURSIVE pow10(_)
pow10(n) == IF n = 0 THEN 1 ELSE 10 * pow10(n - 1)

RECURSIVE zeros(_)
zeros(n) == IF n = 0 THEN Empty ELSE <<"0">> \o zeros(n - 1)

\* re.fullmatch(r"V\.(\d+)f", fmt.strip(), re.IGNORECASE): the digits, None
\* when the format spec is not of this form
format_decimals(fmt) ==
    LET f == strip(fmt)
        n == Len(f)
    IN  IF /\ n >= 4
           /\ f[1] \in {"V", "v"}
           /\ f[2] = "."
           /\ f[n] \in {"f", "F"}
           /\ \A i \in 3..(n - 1) : IsDigit(f[i])
        THEN SubSeq(f, 3, n - 1)
        ELSE None

\* float(value) for a plain decimal numeral: [ok, neg, int, frac] (digit
\* strings), not ok for text float() refuses (ValueError).  The values of the model hold no exponent,
\* underscore, "inf" or "nan" spelling.
float_of(value) ==
    LET v == strip(value)
        signed == v # Empty /\ v[1] \in {"+", "-"}
        body == IF signed THEN Tail(v) ELSE v
        parts == split1(body, ".")
        ip == parts[1]
        fp == IF Len(parts) = 2 THEN parts[2] ELSE Empty
    IN  IF /\ \A i \in 1..Len(ip) : IsDigit(ip[i])
           /\ \A i \in 1..Len(fp) : IsDigit(fp[i])
           /\ Len(ip) + Len(fp) > 0
        THEN [ok |-> TRUE, neg |-> signed /\ v[1] = "-", int |-> ip, frac |-> fp]
        ELSE [ok |-> FALSE, neg |-> FALSE, int |-> Empty, frac |-> Empty]

\* frac with zeros added up to decimals + 1 digits
pad_frac(frac, decimals) ==
    IF Len(frac) < decimals + 1 THEN frac \o zeros(decimals + 1 - Len(frac)) ELSE frac

\* the kept digits as a number, one more when the dropped digits are over half
\* a unit; a tie goes to the even digit, which is what the double does when the
\* numeral is one it holds exactly (the values of the model hold no other tie)
round_kept(kept, twice_rest, unit) ==
    IF twice_rest > unit \/ (twice_rest = unit /\ kept % 2 = 1) THEN kept + 1 ELSE kept

round_digits(int, frac, decimals) ==
    round_kept(int_of(int \o SubSeq(frac, 1, decimals)),
               2 * int_of(SubSeq(frac, decimals + 1, Len(frac))),
               pow10(Len(frac) - decimals))

\* ds with zeros in front up to width digits
pad_digits(ds, width) == IF Len(ds) < width THEN zeros(width - Len(ds)) \o ds ELSE ds

\* the sign, the whole part, and the point and decimals when there are any
place_point(neg, ds, decimals) ==
    (IF neg THEN <<"-">> ELSE Empty)
    \o SubSeq(ds, 1, Len(ds) - decimals)
    \o (IF decimals > 0 THEN <<".">> \o SubSeq(ds, Len(ds) - decimals + 1, Len(ds))
                        ELSE Empty)

\* f"{f:.{decimals}f}" for f = float_of(...): the nearest numeral with that
\* many decimals
format_float(f, decimals) ==
    place_point(f.neg,
                pad_digits(str_of(round_digits(f.int, pad_frac(f.frac, decimals), decimals)),
                           decimals + 1),
                decimals)

\* _apply_format_spec, lines 45-49: float(value), and the value unchanged when
\* that fails
format_value(value, f, decimals) == IF ~f.ok THEN value ELSE format_float(f, decimals)

\* _apply_format_spec, lines 41-44: the value unchanged when the spec is no V.<N>f
format_matched(value, digits) ==
    IF digits = None THEN value ELSE format_value(value, float_of(value), int_of(digits))

\* _apply_format_spec
apply_format_spec(value, fmt) ==
    IF fmt = Empty THEN value ELSE format_matched(value, format_decimals(fmt))

\* the first match of r"\{([^}]+)\}" in s at or after position from:
\* <<start, end>>, or <<0, 0>> when there is none
placeholder_at(s, from) ==
    LET closing(i) == {j \in (i + 1)..Len(s) : s[j] = "}"}
        first_closing(i) == CHOOSE j \in closing(i) : \A k \in closing(i) : j <= k
        ok == {i \in from..Len(s) :
                  s[i] = "{" /\ closing(i) # {} /\ first_closing(i) >= i + 2}
    IN  IF ok = {} THEN <<0, 0>>
        ELSE LET i == CHOOSE i \in ok : \A k \in ok : i <= k
             IN  <<i, first_closing(i)>>

\* re.search(r"\{[^}]+\}", s)
has_placeholder(s) == placeholder_at(s, 1)[1] # 0

\* _first_placeholder_names: every match's group, stripped, left to right
RECURSIVE placeholder_names_from(_, _)
names_after(s, m) ==
    IF m[1] = 0 THEN << >>
    ELSE <<strip(SubSeq(s, m[1] + 1, m[2] - 1))>> \o placeholder_names_from(s, m[2] + 1)

placeholder_names_from(s, from) == names_after(s, placeholder_at(s, from))

first_placeholder_names(cmd_template) == placeholder_names_from(cmd_template, 1)

\* re.sub's reading of its replacement string (sre_parse.parse_template):
\* [ok, text].  A backslash before n, t, r, f or a backslash is that character,
\* before another letter or a digit or at the end it is re.error (there is no
\* group to refer to), before anything else it stays.  The values of the model
\* hold no \g<...>, no \a \b \v, no \0 and no three-digit octal escape.
escape_char(c) ==
    CASE c = "n" -> <<"\n">> [] c = "t" -> <<"\t">>
      [] c = "r" -> <<"\r">> [] c = "f" -> <<"\f">>
      [] c = "\\" -> <<"\\">>
      [] OTHER -> <<"\\", c>>

bad_escape(c) == (IsAsciiLetter(c) /\ c \notin {"n", "t", "r", "f"}) \/ IsDigit(c)

BadTemplate == [ok |-> FALSE, text |-> Empty]

prepend(chars, r) == IF r.ok THEN [ok |-> TRUE, text |-> chars \o r.text] ELSE BadTemplate

RECURSIVE expand_template(_)
expand_template(v) ==
    IF v = Empty THEN [ok |-> TRUE, text |-> Empty]
    ELSE IF v[1] # "\\" THEN prepend(<<v[1]>>, expand_template(Tail(v)))
    ELSE IF Len(v) = 1 THEN BadTemplate
    ELSE IF bad_escape(v[2]) THEN BadTemplate
    ELSE prepend(escape_char(v[2]), expand_template(SubSeq(v, 3, Len(v))))

\* every non-overlapping occurrence of the literal token in s, left to right,
\* replaced by text
RECURSIVE replace_token(_, _, _)
replace_token_at(s, token, text, at) ==
    IF at = {} THEN s
    ELSE LET i == CHOOSE i \in at : \A k \in at : i <= k
         IN  SubSeq(s, 1, i - 1) \o text
             \o replace_token(SubSeq(s, i + Len(token), Len(s)), token, text)

replace_token(s, token, text) ==
    replace_token_at(s, token, text,
        {i \in 1..(Len(s) - Len(token) + 1) : SubSeq(s, i, i + Len(token) - 1) = token})

\* every match of r"\{[^}]+\}" in s, left to right, replaced by text
RECURSIVE replace_placeholders(_, _)
replace_match(s, text, m) ==
    IF m[1] = 0 THEN s
    ELSE SubSeq(s, 1, m[1] - 1) \o text
         \o replace_placeholders(SubSeq(s, m[2] + 1, Len(s)), text)

replace_placeholders(s, text) == replace_match(s, text, placeholder_at(s, 1))

\* re.sub(r"\{" + re.escape(name) + r"\}", v, s) once v is read as a template e
sub_name_template(name, e, s) ==
    IF e.ok THEN [ok |-> TRUE, text |-> replace_token(s, <<"{">> \o name \o <<"}">>, e.text)]
            ELSE [ok |-> FALSE, text |-> s]

\* re.sub(r"\{" + re.escape(name) + r"\}", v, s): [ok, text]; not ok is re.error
sub_name(name, v, s) == sub_name_template(name, expand_template(v), s)

\* re.sub(r"\{[^}]+\}", v, s) once v is read as a template e
sub_any_template(e, s) ==
    IF e.ok THEN [ok |-> TRUE, text |-> replace_placeholders(s, e.text)]
            ELSE [ok |-> FALSE, text |-> s]

\* re.sub(r"\{[^}]+\}", v, s): [ok, text]; not ok is re.error
sub_any(v, s) == sub_any_template(expand_template(v), s)

ParamDef(name, kind, options, format_spec) ==
    [name |-> name, kind |-> kind, options |-> options, format_spec |-> format_spec]

\* parse_param_defs, lines 70-78: a part with a ":", split at the first one
param_of_pair(left, right) ==
    IF Contains(right, ";")
        THEN <<ParamDef(left, "options", strip_nonempty(split(right, ";")), Empty)>>
        ELSE <<ParamDef(left, "free", << >>, right)>>

\* the ParamDef of one part were a ";" anywhere in the part to make it options
param_of_part_any(part) ==
    IF part = Empty THEN << >>
    ELSE IF Contains(part, ":")
        THEN IF Contains(part, ";")
            THEN <<ParamDef(strip(split1(part, ":")[1]), "options",
                            strip_nonempty(split(strip(split1(part, ":")[2]), ";")), Empty)>>
            ELSE <<ParamDef(strip(split1(part, ":")[1]), "free", << >>,
                            strip(split1(part, ":")[2]))>>
        ELSE <<ParamDef(part, "free", << >>, Empty)>>

\* parse_param_defs, lines 65-80: the ParamDef of one part, << >> for an empty part
param_of_part(part) ==
    IF part = Empty THEN << >>
    ELSE IF Contains(part, ":")
        THEN param_of_pair(strip(split1(part, ":")[1]), strip(split1(part, ":")[2]))
        ELSE <<ParamDef(part, "free", << >>, Empty)>>

RECURSIVE params_of_parts(_)
params_of_parts(parts) ==
    IF parts = << >> THEN << >>
    ELSE param_of_part(strip(parts[1])) \o params_of_parts(Tail(parts))

\* parse_param_defs, lines 59-60: one free parameter for every placeholder
params_of_names(ph) == [i \in 1..Len(ph) |-> ParamDef(ph[i], "free", << >>, Empty)]

\* parse_param_defs, lines 58-82, for the stripped raw text s
params_of_spec(s, cmd_template) ==
    IF s = Empty \/ lower(s) \in {<<"n", "a", "n">>, <<"n", "o", "n", "e">>}
        THEN params_of_names(first_placeholder_names(cmd_template))
        ELSE params_of_parts(split(s, "|"))

\* parse_param_defs
parse_param_defs(parameters_raw, cmd_template) ==
    params_of_spec(strip(parameters_raw), cmd_template)

\* ScpiCommand
ScpiCommand(name, cmd, mode, parameters_raw) ==
    [name |-> name, cmd |-> cmd, mode |-> mode, parameters_raw |-> parameters_raw]

\* the descriptor table load_scpi_definitions read: sheet "M1" ...
SheetM1 ==
    << ScpiCommand(<<"G", "V">>, <<"V", "?">>, "GET", <<>>),
       ScpiCommand(<<"G", "N">>, <<"C", "{", "N", "}", "?">>, "GET", <<>>),
       ScpiCommand(<<"G", "M">>, <<"M", "{", "A", "}", "{", "B", "}", "?">>, "GET", <<"A", "|", "B">>),
       ScpiCommand(<<"S", "V">>, <<"V", " ", "{", "V", "}">>, "SET", <<"V", ":", "V", ".", "1", "f">>),
       ScpiCommand(<<"S", "M">>, <<"M", " ", "{", "A", "}", ",", "{", "B", "}">>, "SET", <<"A", ":", "p", ";", "q", "|", "B">>),
       ScpiCommand(<<"S", "R">>, <<"R">>, "SET", <<"n", "a", "n">>) >>

\* ... and sheet "M2"
SheetM2 ==
    << ScpiCommand(<<"G", "V">>, <<"W", "?">>, "GET", <<>>),
       ScpiCommand(<<"S", "R">>, <<"T">>, "SET", <<>>) >>

\* SCPI_DEFS.get(model, [])
SCPI_DEFS_get(model) ==
    IF model = <<"M", "1">> THEN SheetM1
    ELSE IF model = <<"M", "2">> THEN SheetM2
    ELSE << >>

\* next((x for x in cmds if x.name.casefold() == cmd_name.casefold()), None):
\* the index, 0 for None
find_command(cmds, cmd_name) ==
    LET hit == {i \in 1..Len(cmds) : casefold(cmds[i].name) = casefold(cmd_name)}
    IN  IF hit = {} THEN 0 ELSE CHOOSE i \in hit : \A j \in hit : i <= j

\* the JSON "values" of a run request: none (null or absent), a dict (its
\* items in insertion order) or something else
NoValues == [kind |-> "none", items |-> << >>]
Dict(items) == [kind |-> "dict", items |-> items]
NotADict == [kind |-> "other", items |-> << >>]

\* name in values
has_key(values, name) == \E i \in 1..Len(values.items) : values.items[i][1] = name

\* values[name]
value_of(values, name) ==
    values.items[CHOOSE i \in 1..Len(values.items) : values.items[i][1] = name][2]

\* d.name not in values or str(values.get(d.name, "")).strip() == ""
value_missing(values, name) ==
    ~has_key(values, name) \/ strip(value_of(values, name)) = Empty

\* api_run, lines 334-338: the values the commands are built from
effective_values(values, single_value, param_defs) ==
    IF values.kind = "none" /\ single_value # Empty /\ Len(param_defs) = 1
        THEN Dict(<< <<param_defs[1].name, single_value>> >>)
    ELSE IF values.kind = "none" THEN Dict(<< >>)
    ELSE values

Built(cmd) == [status |-> "ok", name |-> Empty, cmd |-> cmd]
MissingValue(name) == [status |-> "missing", name |-> name, cmd |-> Empty]
ReError == [status |-> "error", name |-> Empty, cmd |-> Empty]

\* api_run, lines 350-352 and 372-374: the value to substitute for d
substituted_value(d, v) ==
    IF d.kind = "free" THEN apply_format_spec(v, d.format_spec) ELSE v

\* api_run GET, lines 347-353: the loop over the parameter definitions
RECURSIVE get_loop(_, _, _)
get_next(param_defs, values, r) ==
    IF ~r.ok THEN ReError ELSE get_loop(Tail(param_defs), values, r.text)

get_loop(param_defs, values, cmd_to_send) ==
    IF param_defs = << >> THEN Built(cmd_to_send)
    ELSE IF value_missing(values, param_defs[1].name) THEN MissingValue(param_defs[1].name)
    ELSE get_next(param_defs, values,
            sub_name(param_defs[1].name,
                     substituted_value(param_defs[1],
                                       strip(value_of(values, param_defs[1].name))),
                     cmd_to_send))

\* api_run GET, lines 355-357: what is left of {...} becomes the first value
get_leftover(b, values) ==
    IF b.status # "ok" THEN b
    ELSE IF has_placeholder(b.cmd) /\ values.items # << >>
        THEN get_next(<< <<>> >>, values, sub_any(strip(values.items[1][2]), b.cmd))
        ELSE b

\* api_run GET, lines 344-357: the command to query
build_get(c, param_defs, values) ==
    IF param_defs = << >> THEN Built(strip(c.cmd))
    ELSE get_leftover(get_loop(param_defs, values, strip(c.cmd)), values)

\* api_run SET, lines 368-376: the loop over the parameter definitions
RECURSIVE set_loop(_, _, _)
set_next(param_defs, values, r) ==
    IF ~r.ok THEN ReError ELSE set_loop(Tail(param_defs), values, r.text)

set_loop(param_defs, values, cmd_to_send) ==
    IF param_defs = << >> THEN Built(cmd_to_send)
    ELSE IF value_missing(values, param_defs[1].name) THEN MissingValue(param_defs[1].name)
    ELSE set_next(param_defs, values,
            sub_name(param_defs[1].name,
                     substituted_value(param_defs[1],
                                       strip(value_of(values, param_defs[1].name))),
                     cmd_to_send))

\* api_run SET, lines 378-381: what is left of {...} becomes the first value
set_leftover(b, values) ==
    IF b.status # "ok" THEN b
    ELSE IF has_placeholder(b.cmd)
        THEN IF values.items # << >>
                THEN set_next(<< <<>> >>, values, sub_any(strip(values.items[1][2]), b.cmd))
                ELSE b
        ELSE b

\* the command to write were SET to substitute with an empty parameter list
\* too (no lines 364-366)
build_set_always(c, param_defs, values) ==
    set_leftover(set_loop(param_defs, values, strip(c.cmd)), values)

\* api_run SET, lines 362-381: the command to write
build_set(c, param_defs, values) ==
    IF Len(param_defs) = 0 THEN Built(strip(c.cmd))
    ELSE set_leftover(set_loop(param_defs, values, strip(c.cmd)), values)

(* ------------------------------------------------------------------ *)
(* app.py: state                                                      *)
(* ------------------------------------------------------------------ *)

VARIABLES
    mgr,                    \* _mgr is not None
    lock,                   \* _lock: 0 when free, else the thread holding it
    instrument_collection,  \* _mgr.instrument_collection: the current list
    th                      \* each request thread: its handler's position and locals

vars == <<mgr, lock, instrument_collection, th>>

\* the custom commands of a runCustom request, as sent
CustomInputs == {<<"Q", "?">>, <<"W">>, <<" ">>}
CustomInputsFew == {<<"Q", "?">>}

\* the name, values and value fields of a run request, as sent
RunInputs ==
    { [name |-> <<"g", "v", " ">>, values |-> NoValues, value |-> <<>>],
      [name |-> <<"G", "N">>, values |-> NoValues, value |-> <<" ", "1">>],
      [name |-> <<"G", "N">>, values |-> NoValues, value |-> <<>>],
      [name |-> <<"G", "M">>, values |-> Dict(<<<<<<"A">>, <<"1">>>>>>), value |-> <<>>],
      [name |-> <<"G", "M">>, values |-> Dict(<<<<<<"B">>, <<"2">>>>, <<<<"A">>, <<"1">>>>>>), value |-> <<>>],
      [name |-> <<"S", "V">>, values |-> Dict(<<<<<<"V">>, <<"2", ".", "2", "6">>>>>>), value |-> <<>>],
      [name |-> <<"S", "V">>, values |-> Dict(<<<<<<"V">>, <<" ">>>>>>), value |-> <<>>],
      [name |-> <<"S", "V">>, values |-> NotADict, value |-> <<>>],
      [name |-> <<"S", "M">>, values |-> Dict(<<<<<<"A">>, <<"p">>>>, <<<<"B">>, <<"3">>>>>>), value |-> <<>>],
      [name |-> <<"S", "M">>, values |-> Dict(<<<<<<"A">>, <<"p">>>>>>), value |-> <<>>],
      [name |-> <<"S", "M">>, values |-> Dict(<<<<<<"A">>, <<"\\">>>>>>), value |-> <<>>],
      [name |-> <<"S", "M">>, values |-> Dict(<<<<<<"B">>, <<"3">>>>>>), value |-> <<>>],
      [name |-> <<"S", "R">>, values |-> NoValues, value |-> <<>>],
      [name |-> <<"X", "X">>, values |-> NoValues, value |-> <<>>],
      [name |-> <<" ">>, values |-> NoValues, value |-> <<>>] }
RunInputsFew == {[name |-> <<"S", "R">>, values |-> NoValues, value |-> <<>>]}

\* what a device may answer to a query
Responses == {<<"1">>, <<"2">>}

\* what Instrument.query / Instrument.write can end in at the transport
IoOutcomes ==
    {[kind |-> "resp", text |-> x] : x \in Responses}
    \cup {[kind |-> k, text |-> Empty] :
            k \in {"open_error", "write_timeout", "read_timeout", "error"}}
IoOutcomesFew ==
    {[kind |-> "resp", text |-> <<"1">>], [kind |-> "error", text |-> Empty]}

NoResp ==
    [ok |-> FALSE, status |-> 0, error |-> "", detail |-> Empty,
     cmd |-> Empty, response |-> Empty]

\* jsonify({"ok": True, "cmd": ..., "response": ...})
Ok(cmd, response) ==
    [ok |-> TRUE, status |-> 200, error |-> "", detail |-> Empty,
     cmd |-> cmd, response |-> response]

\* jsonify({"ok": False, "error": ...}), status
Fail(status, error, detail) ==
    [ok |-> FALSE, status |-> status, error |-> error, detail |-> detail,
     cmd |-> Empty, response |-> Empty]

\* a thread between requests
IdleThread ==
    [pc |-> "idle", op |-> "none",
     alias |-> Empty, ident |-> <<Empty, Empty, Empty>>, name |-> Empty,
     values |-> NoValues, value |-> Empty, cmd |-> Empty,
     k |-> 0, found |-> << >>, old |-> << >>, seen |-> << >>,
     inst |-> 0, instLive |-> FALSE, sameList |-> FALSE,
     isq |-> FALSE, itLive |-> FALSE, itList |-> << >>, i |-> 0, acc |-> Empty,
     calls |-> << >>, resp |-> NoResp]

Init ==
    /\ mgr = FALSE
    /\ lock = 0
    /\ instrument_collection = << >>
    /\ th = [t \in Threads |-> IdleThread]

\* the list a thread's loop iterates: the registry's current list while that is
\* the list object the loop started on, else the replaced list the loop still holds
IterList(t) == IF th[t].itLive THEN instrument_collection ELSE th[t].itList

\* the list were it emptied in place (instrument_collection.clear()): a loop
\* that iterates it goes on over the registry's list
ReplacedInPlace(u) == [u EXCEPT !.instLive = FALSE]

\* self.instrument_collection = []: the list object is replaced.  A loop that
\* iterates the old list keeps it, and an instrument a handler holds is no
\* longer one of the registry's
Replaced(u) ==
    [u EXCEPT !.itLive = FALSE,
              !.itList = IF u.itLive THEN instrument_collection ELSE u.itList,
              !.instLive = FALSE]

(* ------------------------------------------------------------------ *)
(* app.py: the handlers                                               *)
(* ------------------------------------------------------------------ *)

\* the fields of a request, read and stripped (lines 253-257, 272, 310-314, 392-393)
ScanRequest == [IdleThread EXCEPT !.op = "scan"]
SetAliasRequest(a, id) ==
    [IdleThread EXCEPT !.op = "set_alias", !.alias = strip(a),
                       !.ident = <<strip(id[1]), strip(id[2]), strip(id[3])>>]
CommandsRequest(a) == [IdleThread EXCEPT !.op = "commands", !.alias = strip(a)]
RunRequest(a, r) ==
    [IdleThread EXCEPT !.op = "run", !.alias = strip(a), !.name = strip(r.name),
                       !.values = r.values, !.value = strip(r.value)]
CustomRequest(a, c) ==
    [IdleThread EXCEPT !.op = "custom", !.alias = strip(a), !.cmd = strip(c)]

\* the 400 answers: a field is missing or blank (lines 259, 273, 316, 395)
MissingField(r) ==
    CASE r.op = "set_alias" -> r.alias = Empty \/ \E j \in 1..3 : r.ident[j] = Empty
      [] r.op = "commands" -> r.alias = Empty
      [] r.op = "run" -> r.alias = Empty \/ r.name = Empty
      [] r.op = "custom" -> r.alias = Empty \/ r.cmd = Empty
      [] OTHER -> FALSE

MissingError(op) ==
    CASE op = "set_alias" -> "Missing alias/vendor/model/serial"
      [] op = "commands" -> "Missing alias"
      [] op = "run" -> "Missing alias/name"
      [] OTHER -> "Missing alias/cmd"

\* the requests that may arrive
RequestsOf(aliases, idents, runs, customs) ==
    {ScanRequest}
    \cup {SetAliasRequest(a, id) : a \in aliases, id \in idents}
    \cup {CommandsRequest(a) : a \in aliases}
    \cup {RunRequest(a, r) : a \in aliases, r \in runs}
    \cup {CustomRequest(a, c) : a \in aliases, c \in customs}

Requests == RequestsOf(AliasInputs, IdentInputs, RunInputs, CustomInputs)
RequestsFew ==
    RequestsOf(AliasInputsFew, IdentInputsFew, RunInputsFew, CustomInputsFew)
    \cup {CommandsRequest(<<" ">>)}

\* the inputs of a run: the requests, and what the devices do
Inputs == [reqs |-> Requests, scan |-> ScanOutcomes, io |-> IoOutcomes]
InputsFew == [reqs |-> RequestsFew, scan |-> ScanOutcomesFew, io |-> IoOutcomesFew]

\* `with _lock:` were the lock not to exclude: a thread enters whoever holds it
lock_acquire_unguarded(t) == lock' = t

\* `with _lock:` is entered by thread t: the lock is free, and is t's from then on
lock_acquire(t) ==
    /\ lock = 0
    /\ lock' = t

\* a request with a missing field is answered 400 before the lock is touched
Reject(t, inp) ==
    /\ th[t].pc = "idle"
    /\ \E r \in inp.reqs :
        /\ MissingField(r)
        /\ th' = [th EXCEPT ![t] =
                    [r EXCEPT !.pc = "done", !.resp = Fail(400, MissingError(r.op), Empty)]]
    /\ UNCHANGED <<mgr, lock, instrument_collection>>

\* a request arrives and enters `with _lock:` (a request still waiting for the
\* lock has done nothing yet), then calls _get_mgr(): the first call builds
\* upyvisa(), whose __init__ empties the collection and starts a scan
Enter(t, inp) ==
    /\ th[t].pc = "idle"
    /\ lock_acquire(t)
    /\ \E r \in inp.reqs :
        /\ ~MissingField(r)
        /\ IF mgr
            THEN /\ th' = [th EXCEPT ![t] = [r EXCEPT !.pc = "body"]]
                 /\ UNCHANGED instrument_collection
            ELSE /\ instrument_collection' = << >>
                 /\ th' = [u \in Threads |->
                            IF u = t THEN [r EXCEPT !.pc = "ctor", !.k = 1]
                                     ELSE Replaced(th[u])]
    /\ UNCHANGED mgr

\* find_instruments were it not to start from a new list (no line 99): the scan
\* appends to what the registry holds
FindInstrumentsKeep(t) ==
    /\ th[t].pc = "body"
    /\ th[t].op = "scan"
    /\ th' = [th EXCEPT ![t].pc = "scan", ![t].k = 1, ![t].found = << >>,
                        ![t].old = instrument_collection, ![t].seen = << >>]
    /\ UNCHANGED <<mgr, lock, instrument_collection>>

\* api_scan: mgr.find_instruments() starts: the collection is a new empty list
FindInstrumentsBegin(t) ==
    /\ th[t].pc = "body"
    /\ th[t].op = "scan"
    /\ instrument_collection' = << >>
    /\ th' = [u \in Threads |->
                IF u = t THEN [th[t] EXCEPT !.pc = "scan", !.k = 1, !.found = << >>,
                                               !.old = instrument_collection,
                                               !.seen = << >>]
                         ELSE Replaced(th[u])]
    /\ UNCHANGED <<mgr, lock>>

\* find_instruments: one resource is opened and asked for its identity
ScanStep(t, inp) ==
    /\ th[t].pc \in {"ctor", "scan"}
    /\ th[t].k <= Len(list_resources)
    /\ \E o \in inp.scan :
        LET r == list_resources[th[t].k]
            taken == o.kind = "resp" /\ Len(o.text) > MinIdnLen
        IN  /\ instrument_collection' = scan_one(instrument_collection, r, o)
            /\ th' = [th EXCEPT ![t].k = @ + 1,
                                ![t].found = IF taken THEN Append(@, <<r, o.text>>) ELSE @,
                                ![t].seen = Append(@, o)]
    /\ UNCHANGED <<mgr, lock>>

\* find_instruments returns: to _get_mgr (which sets _mgr), or to api_scan
\* (which leaves the lock and answers)
ScanEnd(t) ==
    /\ th[t].pc \in {"ctor", "scan"}
    /\ th[t].k > Len(list_resources)
    /\ IF th[t].pc = "ctor"
        THEN /\ mgr' = TRUE
             /\ th' = [th EXCEPT ![t].pc = "body", ![t].k = 0, ![t].found = << >>,
                                 ![t].seen = << >>]
             /\ UNCHANGED lock
        ELSE /\ lock' = 0
             /\ th' = [th EXCEPT ![t].pc = "done", ![t].resp = Ok(Empty, Empty)]
             /\ UNCHANGED mgr
    /\ UNCHANGED instrument_collection

\* api_set_alias, lines 262-267 (an exception leaves the lock and is a 500)
ApiSetAlias(t) ==
    /\ th[t].pc = "body"
    /\ th[t].op = "set_alias"
    /\ LET r == set_alias(instrument_collection, th[t].alias,
                          th[t].ident[1], th[t].ident[2], th[t].ident[3])
       IN  /\ instrument_collection' = r.coll
           /\ th' = [th EXCEPT ![t].pc = "done",
                               ![t].resp = CASE r.ret = "1" -> Ok(Empty, Empty)
                                             [] r.ret = "-1" -> [Ok(Empty, Empty) EXCEPT !.ok = FALSE]
                                             [] OTHER -> Fail(500, r.ret, Empty)]
    /\ lock' = 0
    /\ UNCHANGED mgr

\* api_commands_for_alias / api_run, the lookup: the first instrument with
\* (i.alias or "").casefold() == alias.casefold(), 0 for None
lookup(coll, alias) ==
    LET hit == {i \in 1..Len(coll) :
                    casefold(IF coll[i].alias = None THEN Empty ELSE coll[i].alias)
                        = casefold(alias)}
    IN  IF hit = {} THEN 0 ELSE CHOOSE i \in hit : \A j \in hit : i <= j

\* api_commands_for_alias, lines 276-304
ApiCommands(t) ==
    /\ th[t].pc = "body"
    /\ th[t].op = "commands"
    /\ LET inst == lookup(instrument_collection, th[t].alias)
       IN  th' = [th EXCEPT ![t].pc = "done",
                            ![t].resp = IF inst = 0 THEN Fail(404, "Alias not found", Empty)
                                                    ELSE Ok(Empty, Empty)]
    /\ lock' = 0
    /\ UNCHANGED <<mgr, instrument_collection>>

\* api_run, lines 349, 370, 386 and the calls of mgr.query / mgr.write: the
\* answer when the handler returns early, or the command to dispatch
run_built(c, b) ==
    IF b.status = "missing"
        THEN [go |-> FALSE, query |-> FALSE, resp |-> Fail(400, "Missing value for", b.name)]
    ELSE IF b.status = "error"
        THEN [go |-> FALSE, query |-> FALSE, resp |-> Fail(500, "error", Empty)]
    ELSE [go |-> TRUE, query |-> c.mode = "GET", resp |-> Ok(b.cmd, Empty)]

\* api_run, lines 339-343 and 362
run_values(c, param_defs, vals) ==
    IF vals.kind # "dict"
        THEN [go |-> FALSE, query |-> FALSE,
              resp |-> Fail(400, "values must be an object/dict", Empty)]
    ELSE run_built(c, IF c.mode = "GET" THEN build_get(c, param_defs, vals)
                                       ELSE build_set(c, param_defs, vals))

\* api_run, lines 334-338
run_params(c, param_defs, values, single_value) ==
    run_values(c, param_defs, effective_values(values, single_value, param_defs))

\* api_run, lines 329-332
run_command(cmds, ci, cmd_name, values, single_value) ==
    IF ci = 0
        THEN [go |-> FALSE, query |-> FALSE, resp |-> Fail(404, "Command not found", cmd_name)]
    ELSE run_params(cmds[ci], parse_param_defs(cmds[ci].parameters_raw, cmds[ci].cmd),
                    values, single_value)

\* api_run, lines 327-328
run_cmds(cmds, cmd_name, values, single_value) ==
    run_command(cmds, find_command(cmds, cmd_name), cmd_name, values, single_value)

\* api_run, lines 326-384, for the instrument the lookup found
run_plan(inst, cmd_name, values, single_value) ==
    run_cmds(SCPI_DEFS_get(inst.model), cmd_name, values, single_value)

\* api_run after the lookup: the thread with its answer, or set to dispatch
run_planned(u, inst, plan) ==
    IF ~plan.go
        THEN [u EXCEPT !.pc = "done", !.inst = inst, !.instLive = TRUE, !.resp = plan.resp]
        ELSE [u EXCEPT !.pc = "dispatch", !.inst = inst, !.instLive = TRUE,
                       !.cmd = plan.resp.cmd, !.isq = plan.query]

\* api_run, lines 321-324: inst is None (0) or the instrument found
run_looked_up(u, coll, inst) ==
    IF inst = 0
        THEN [u EXCEPT !.pc = "done", !.resp = Fail(404, "Alias not found", Empty)]
        ELSE run_planned(u, inst, run_plan(coll[inst], u.name, u.values, u.value))

\* api_run, lines 319-357 and 362-381: the lookup inside the lock, and outside
\* it the handler's own work up to the call of mgr.query / mgr.write
ApiRun(t) ==
    /\ th[t].pc = "body"
    /\ th[t].op = "run"
    /\ th' = [th EXCEPT ![t] = run_looked_up(th[t], instrument_collection,
                                             lookup(instrument_collection, th[t].alias))]
    /\ lock' = 0
    /\ UNCHANGED <<mgr, instrument_collection>>

\* api_custom were mgr.query / mgr.write called inside `with _lock:`
ApiCustomLocked(t) ==
    /\ th[t].pc = "body"
    /\ th[t].op = "custom"
    /\ th' = [th EXCEPT ![t].pc = "dispatch", ![t].isq = Contains(th[t].cmd, "?")]
    /\ UNCHANGED <<mgr, lock, instrument_collection>>

\* api_custom, lines 398-403: the lock is held for _get_mgr() only
ApiCustom(t) ==
    /\ th[t].pc = "body"
    /\ th[t].op = "custom"
    /\ th' = [th EXCEPT ![t].pc = "dispatch", ![t].isq = Contains(th[t].cmd, "?")]
    /\ lock' = 0
    /\ UNCHANGED <<mgr, instrument_collection>>

\* mgr.query / mgr.write is called: the for loop takes the current list
DispatchBegin(t) ==
    /\ th[t].pc = "dispatch"
    /\ th' = [th EXCEPT ![t].pc = "iter", ![t].itLive = TRUE, ![t].itList = << >>,
                        ![t].sameList = th[t].instLive,
                        ![t].i = 1, ![t].acc = Empty]
    /\ UNCHANGED <<mgr, lock, instrument_collection>>

\* query / write: the loop ends (query returns its string, write prints
\* "Alias not found" and returns) or looks at the next instrument, and calls
\* its query / write when the alias matches
IterStep(t) ==
    /\ th[t].pc = "iter"
    /\ LET list == IterList(t)
           i == th[t].i
       IN  IF i > Len(list)
            THEN th' = [th EXCEPT ![t].pc = "done", ![t].itLive = FALSE, ![t].itList = << >>,
                                  ![t].resp = Ok(th[t].cmd, th[t].acc)]
            ELSE IF alias_matches(list[i], th[t].alias)
                THEN th' = [th EXCEPT ![t].pc = "io"]
                ELSE th' = [th EXCEPT ![t].i = i + 1]
    /\ UNCHANGED <<mgr, lock, instrument_collection>>

\* Instrument.query, lines 30-55, and Instrument.write, lines 63-83: does the
\* exchange raise?  Opening can fail for both; a query's inst.write is outside
\* its try, so its timeout is raised too, while its read's timeout is the empty
\* response; a write's timeout is a plain return
io_raises(isq, kind) ==
    IF isq THEN kind \in {"open_error", "write_timeout", "error"}
           ELSE kind \in {"open_error", "error"}

\* upyvisa.query were it to return at its first match, as write does
after_io_first(u, calls, response) ==
    [u EXCEPT !.pc = "done", !.calls = calls, !.itLive = FALSE, !.itList = << >>,
              !.resp = Ok(u.cmd, IF u.isq THEN response ELSE Empty)]

\* upyvisa.write were it to go on through the collection, as query does
after_io_all(u, calls, response) ==
    [u EXCEPT !.pc = "iter", !.calls = calls,
              !.acc = IF u.isq THEN response \o @ ELSE @, !.i = @ + 1]

\* upyvisa.query, line 176: the response goes in front of what was collected and
\* the loop goes on; upyvisa.write, lines 184-185: the write is done and write
\* returns
after_io(u, calls, response) ==
    IF u.isq
        THEN [u EXCEPT !.pc = "iter", !.calls = calls, !.acc = response \o @, !.i = @ + 1]
        ELSE [u EXCEPT !.pc = "done", !.calls = calls, !.itLive = FALSE, !.itList = << >>,
                       !.resp = Ok(u.cmd, Empty)]

\* the exchange were a failing instrument to be forgotten: a transport error
\* takes the alias off the instrument that raised it
IoStepForgets(t, inp) ==
    /\ th[t].pc = "io"
    /\ \E o \in inp.io :
        LET call == [target |-> th[t].i, live |-> th[t].itLive, same |-> th[t].sameList,
                     query |-> th[t].isq, cmd |-> th[t].cmd,
                     outcome |-> o.kind, text |-> o.text,
                     scanned |-> /\ ~th[t].itLive
                                 /\ \E u \in Threads \ {t} :
                                        th[u].pc = "done" /\ th[u].op = "scan"]
        IN  IF io_raises(th[t].isq, o.kind)
            THEN /\ th' = [th EXCEPT ![t].pc = "done", ![t].calls = Append(@, call),
                                     ![t].itLive = FALSE, ![t].itList = << >>,
                                     ![t].resp = Fail(500, "VisaIOError", Empty)]
                 /\ instrument_collection' =
                        IF th[t].itLive
                            THEN [instrument_collection EXCEPT ![th[t].i].alias = None]
                            ELSE instrument_collection
            ELSE /\ th' = [th EXCEPT ![t] = after_io(th[t], Append(th[t].calls, call),
                                                     IF o.kind = "resp" THEN o.text ELSE Empty)]
                 /\ UNCHANGED instrument_collection
    /\ UNCHANGED <<mgr, lock>>

\* Instrument.query / Instrument.write: the exchange with the device.  The call
\* is recorded with the instrument it went to (its place in the loop's list,
\* whether that list is the registry's current one, and whether it is the list
\* the handler's own lookup read)
IoStep(t, inp) ==
    /\ th[t].pc = "io"
    /\ \E o \in inp.io :
        LET call == [target |-> th[t].i, live |-> th[t].itLive, same |-> th[t].sameList,
                     query |-> th[t].isq, cmd |-> th[t].cmd,
                     outcome |-> o.kind, text |-> o.text,
                     scanned |-> /\ ~th[t].itLive
                                 /\ \E u \in Threads \ {t} :
                                        th[u].pc = "done" /\ th[u].op = "scan"]
        IN  IF io_raises(th[t].isq, o.kind)
            THEN th' = [th EXCEPT ![t].pc = "done", ![t].calls = Append(@, call),
                                  ![t].itLive = FALSE, ![t].itList = << >>,
                                  ![t].resp = Fail(500, "VisaIOError", Empty)]
            ELSE th' = [th EXCEPT ![t] = after_io(th[t], Append(th[t].calls, call),
                                                  IF o.kind = "resp" THEN o.text ELSE Empty)]
    /\ UNCHANGED <<mgr, lock, instrument_collection>>

\* the response is sent; the thread is free for the next request
Return(t) ==
    /\ th[t].pc = "done"
    /\ th' = [th EXCEPT ![t] = IdleThread]
    /\ UNCHANGED <<mgr, lock, instrument_collection>>

\* one step of thread t
Step(t, inp) ==
    \/ Reject(t, inp)
    \/ Enter(t, inp)
    \/ FindInstrumentsBegin(t)
    \/ ScanStep(t, inp)
    \/ ScanEnd(t)
    \/ ApiSetAlias(t)
    \/ ApiCommands(t)
    \/ ApiRun(t)
    \/ ApiCustom(t)
    \/ DispatchBegin(t)
    \/ IterStep(t)
    \/ IoStep(t, inp)
    \/ Return(t)

\* one request at a time
NextSeq == Step(1, Inputs)

SpecSeq == Init /\ [][NextSeq]_vars

\* the threads of the server, interleaved
Next == \E t \in Threads : Step(t, InputsFew)

Spec == Init /\ [][Next]_vars

(* ------------------------------------------------------------------ *)
(* The registry's contract                                            *)
(* ------------------------------------------------------------------ *)

\* the instruments of coll that answer to alias: they have an alias, and it is
\* the given one, trimmed and without regard to case
Matching(coll, alias) ==
    {i \in 1..Len(coll) :
        coll[i].alias # None /\ casefold(strip(coll[i].alias)) = casefold(strip(alias))}

\* the least member of a non-empty set of numbers
Least(S) == CHOOSE i \in S : \A j \in S : i <= j

\* the members of a set of numbers, ascending
RECURSIVE Ascending(_)
Ascending(S) == IF S = {} THEN << >> ELSE <<Least(S)>> \o Ascending(S \ {Least(S)})

\* the instruments a scan makes from the responses it took, in scan order
ScanResult(found) == [j \in 1..Len(found) |-> instrument_of(found[j][1], found[j][2])]

\* thread t is inside find_instruments, or is api_scan just returned
Scanning(t) == th[t].pc \in {"ctor", "scan"}
ScanReturned(t) == th[t].pc = "done" /\ th[t].op = "scan"

\* C1: while a discovery scan runs and when it has returned, the registry holds
\* exactly the instruments that scan has found, in scan order, and none of them
\* has an alias; nothing of the set the scan replaced is carried over, so every
\* alias that resolved before the scan resolves to nothing after it.
C1_DiscoverReplaces ==
    \A t \in Threads :
        (Scanning(t) \/ ScanReturned(t)) =>
            /\ instrument_collection = ScanResult(th[t].found)
            /\ \A i \in 1..Len(instrument_collection) : instrument_collection[i].alias = None
            /\ \A j \in 1..Len(th[t].old) :
                th[t].old[j].alias # None =>
                    /\ lookup(instrument_collection, th[t].old[j].alias) = 0
                    /\ Matching(instrument_collection, th[t].old[j].alias) = {}

\* a rescan has returned: the set it replaced had an alias assigned, and the scan
\* found an instrument
C1_Witness ==
    /\ ScanReturned(1)
    /\ \E j \in 1..Len(th[1].old) : th[1].old[j].alias # None
    /\ Len(th[1].found) >= 1
    /\ Len(instrument_collection) >= 1

\* instrument x has the identity ident: vendor, model and serial are there and
\* equal the arguments, trimmed and without regard to case
IdentityEquals(x, ident) ==
    /\ x.vendor # None /\ casefold(strip(x.vendor)) = casefold(strip(ident[1]))
    /\ x.model # None /\ casefold(strip(x.model)) = casefold(strip(ident[2]))
    /\ x.serial # None /\ casefold(strip(x.serial)) = casefold(strip(ident[3]))

\* the first instrument of coll with that identity, 0 when there is none
FirstIdentityMatch(coll, ident) ==
    IF \E i \in 1..Len(coll) : IdentityEquals(coll[i], ident)
        THEN Least({i \in 1..Len(coll) : IdentityEquals(coll[i], ident)})
        ELSE 0

\* thread t takes the step in which its api_set_alias runs and answers
SetAliasStep(t) ==
    th[t].pc = "body" /\ th[t].op = "set_alias" /\ th'[t].pc = "done"

\* what C2 asks of one assign_alias with x the first instrument of that identity
AssignsFirstMatch(t, x) ==
    IF x # 0
        THEN /\ th'[t].resp.ok
             /\ instrument_collection' = [instrument_collection EXCEPT ![x].alias = th[t].alias]
        ELSE /\ ~th'[t].resp.ok
             /\ instrument_collection' = instrument_collection

\* C2: assign_alias sets the alias of exactly the first instrument whose vendor,
\* model and serial equal the arguments (trimmed, without regard to case), leaves
\* every other alias and the instrument set as they were and answers success;
\* with no such instrument it answers failure and changes nothing.
C2_AssignsFirstMatch ==
    [][\A t \in Threads :
        SetAliasStep(t) =>
            AssignsFirstMatch(t, FirstIdentityMatch(instrument_collection, th[t].ident))]_vars

\* set_alias with the arguments of request u, applied to the collection coll
set_alias_of(coll, u) == set_alias(coll, u.alias, u.ident[1], u.ident[2], u.ident[3])

\* applied to what set_alias returned, set_alias returns the same value and the
\* same registry, in which the alias resolves to the same instruments
SameTwice(once, u) ==
    /\ set_alias_of(once.coll, u) = once
    /\ Matching(set_alias_of(once.coll, u).coll, u.alias) = Matching(once.coll, u.alias)

\* what api_set_alias answers for a return value of set_alias
AnswerOf(ret) == IF ret = "1" THEN "ok" ELSE IF ret = "-1" THEN "failed" ELSE "raised"
AnswerIn(resp) == IF resp.ok THEN "ok" ELSE IF resp.status = 500 THEN "raised" ELSE "failed"

\* C3: assign_alias is idempotent.  In every registry state in which, and for
\* every argument tuple with which, assign_alias is called, a second call with
\* the same arguments returns what the first returns and leaves the registry as
\* the first leaves it; and a call that has been answered, made again, is
\* answered the same and changes nothing.
C3_AssignAliasIdempotent ==
    \A t \in Threads :
        /\ (th[t].pc = "body" /\ th[t].op = "set_alias") =>
            SameTwice(set_alias_of(instrument_collection, th[t]), th[t])
        /\ (th[t].pc = "done" /\ th[t].op = "set_alias" /\ ~MissingField(th[t])) =>
            /\ set_alias_of(instrument_collection, th[t]).coll = instrument_collection
            /\ AnswerOf(set_alias_of(instrument_collection, th[t]).ret) = AnswerIn(th[t].resp)

\* an assign_alias has succeeded on the first of two instruments of one identity,
\* which now answers to the alias while the second has none
C3_Witness ==
    /\ th[1].pc = "done" /\ th[1].op = "set_alias" /\ th[1].resp.ok
    /\ Len(instrument_collection) = 2
    /\ IdentityEquals(instrument_collection[2], th[1].ident)
    /\ Matching(instrument_collection, th[1].alias) = {1}
    /\ instrument_collection[2].alias = None

\* the collection with every alias taken off
Unaliased(coll) == [i \in 1..Len(coll) |-> [coll[i] EXCEPT !.alias = None]]

\* C4: alias uniqueness is not enforced.  An assign_alias that succeeds changes
\* the alias of one instrument and of no other, so an instrument that carries
\* the same alias keeps it; and whether it succeeds does not depend on the
\* aliases the instruments carry: it is answered as it would be were there none.
C4_AliasNotUnique ==
    [][\A t \in Threads :
        SetAliasStep(t) =>
            /\ th'[t].resp.ok =>
                \E y \in 1..Len(instrument_collection) :
                    instrument_collection'
                        = [instrument_collection EXCEPT ![y].alias = th[t].alias]
            /\ AnswerIn(th'[t].resp)
                = AnswerOf(set_alias_of(Unaliased(instrument_collection), th[t]).ret)]_vars

\* an assign_alias has succeeded and two instruments of different identity carry
\* its alias at once, in different spellings
C4_Witness ==
    /\ th[1].pc = "done" /\ th[1].op = "set_alias" /\ th[1].resp.ok
    /\ Len(instrument_collection) = 2
    /\ Matching(instrument_collection, th[1].alias) = {1, 2}
    /\ instrument_collection[1].alias # instrument_collection[2].alias
    /\ instrument_collection[1].model # instrument_collection[2].model

(* ------------------------------------------------------------------ *)
(* Dispatch                                                           *)
(* ------------------------------------------------------------------ *)

\* thread t has called mgr.query / mgr.write for its request
Dispatched(t) == th[t].op \in {"run", "custom"} /\ th[t].i > 0

\* the responses of the calls, the last call's first
RECURSIVE Reversed(_)
Reversed(calls) ==
    IF calls = << >> THEN Empty ELSE Reversed(Tail(calls)) \o Head(calls).text

\* the calls are queries of cmd, one to each instrument of targets, in that order
CallsAre(calls, targets, isq, cmd) ==
    /\ Len(calls) = Len(targets)
    /\ \A j \in 1..Len(calls) :
        /\ calls[j].target = targets[j]
        /\ calls[j].query = isq
        /\ calls[j].cmd = cmd

C6_WriteFirstMatching ==
    (Dispatched(1) /\ ~th[1].isq) =>
        /\ Len(th[1].calls) <= 1
        /\ (th[1].pc = "done" /\ Matching(instrument_collection, th[1].alias) # {}) =>
            CallsAre(th[1].calls,
                     <<Least(Matching(instrument_collection, th[1].alias))>>,
                     FALSE, th[1].cmd)
        /\ (th[1].pc = "done" /\ Matching(instrument_collection, th[1].alias) = {}) =>
            /\ th[1].calls = << >>
            /\ th[1].resp = Ok(th[1].cmd, Empty)

\* a write has returned for an alias that two instruments answer to
C6_Witness ==
    /\ Dispatched(1) /\ ~th[1].isq /\ th[1].pc = "done" /\ th[1].resp.ok
    /\ Matching(instrument_collection, th[1].alias) = {1, 2}
    /\ Len(th[1].calls) = 1

\* a parameter definition of param_defs has no entry, or a blank one, in the
\* values a run request is built from
MissingNames(param_defs, vals) ==
    {param_defs[j].name : j \in {k \in 1..Len(param_defs) : value_missing(vals, param_defs[k].name)}}

\* the names of the parameters of descriptor c a request u leaves without value
MissingOfParams(u, param_defs) ==
    IF effective_values(u.values, u.value, param_defs).kind # "dict" THEN {}
    ELSE MissingNames(param_defs, effective_values(u.values, u.value, param_defs))

MissingOfCommand(u, cmds, ci) ==
    IF ci = 0 THEN {}
    ELSE MissingOfParams(u, parse_param_defs(cmds[ci].parameters_raw, cmds[ci].cmd))

MissingOfModel(u, cmds) == MissingOfCommand(u, cmds, find_command(cmds, u.name))

\* for a run request that has resolved its alias and found its descriptor
MissingOf(u) == MissingOfModel(u, SCPI_DEFS_get(instrument_collection[u.inst].model))

\* the request of u is answered MissingValue, naming one of names
AnsweredMissing(u, names) ==
    /\ u.pc = "done"
    /\ u.resp.status = 400
    /\ u.resp.error = "Missing value for"
    /\ u.resp.detail \in names
    /\ u.calls = << >>

\* C7: a run whose descriptor has a parameter definition with no entry or a
\* blank entry in the values map fails with MissingValue naming that parameter,
\* for GET and for SET, and no transport query or write is issued.
C7_MissingValueBeforeDispatch ==
    (/\ th[1].op = "run"
     /\ th[1].pc \in {"dispatch", "iter", "io", "done"}
     /\ th[1].inst # 0
     /\ MissingOf(th[1]) # {})
        => AnsweredMissing(th[1], MissingOf(th[1]))

\* AliasNotFound, as api_run answers it
AliasNotFound == Fail(404, "Alias not found", Empty)

\* C8: at every dispatch point, of run and of runCustom, a request whose alias
\* matches no discovered instrument is answered AliasNotFound, never success,
\* and the registry is left as it was (from the handler's lookup on: the first
\* request of all builds the manager, whose constructor scans).
C8_AliasNotFoundSurfaced ==
    [][\A t \in Threads :
        (/\ th[t].op \in {"run", "custom"}
         /\ th[t].pc \in {"body", "dispatch", "iter", "io"}
         /\ th'[t] # th[t]
         /\ Matching(instrument_collection, th[t].alias) = {})
            => /\ instrument_collection' = instrument_collection
               /\ (th'[t].pc = "done" => th'[t].resp = AliasNotFound)]_vars

(* ------------------------------------------------------------------ *)
(* Concurrency                                                        *)
(* ------------------------------------------------------------------ *)

\* thread t is inside a `with _lock:` block
InRegion(t) == th[t].pc \in {"ctor", "body", "scan"}

\* C9: mutual exclusion.  At most one request at a time is inside the guarded
\* region, and it is the one the lock records; so while a discovery scan is
\* rebuilding the instrument set no other request is at its lookup or its
\* assign_alias.
C9_MutualExclusion ==
    /\ \A t, u \in Threads : (InRegion(t) /\ InRegion(u)) => t = u
    /\ \A t \in Threads : InRegion(t) => lock = t
    /\ \A t, u \in Threads : (Scanning(t) /\ th[u].pc = "body") => t = u

\* a scan has rebuilt part of the set while the other thread, outside the
\* region, is in the middle of its dispatch
C9_Witness ==
    /\ th[1].pc = "scan" /\ th[1].k > 1
    /\ Len(instrument_collection) >= 1
    /\ th[2].pc \in {"iter", "io"}

\* C10: the transport I/O of run goes to the instrument the lookup resolved
\* under the lock, and to no other: every call of a run request is made to that
\* instrument of the list the lookup read, and a run that answers success has
\* sent its command to it, whatever other requests did in between.
C10_IoToResolvedInstrument ==
    \A t \in Threads :
        th[t].op = "run" =>
            /\ \A j \in 1..Len(th[t].calls) :
                /\ th[t].calls[j].same
                /\ th[t].calls[j].target = th[t].inst
            /\ (Dispatched(t) /\ th[t].pc = "done" /\ th[t].resp.ok) => th[t].calls # << >>

(* ------------------------------------------------------------------ *)
(* Dispatch of catalogued commands                                    *)
(* ------------------------------------------------------------------ *)

\* the instruments the calls of request u went to have the model of the
\* instrument u's lookup resolved, whose sheet the command was taken from
CallsHaveModel(u, coll) ==
    \A j \in 1..Len(u.calls) : coll[u.calls[j].target].model = coll[u.inst].model

\* the calls of request u went to the instrument its lookup resolved
CallsToResolved(u) == \A j \in 1..Len(u.calls) : u.calls[j].target = u.inst

\* C11: every instrument that receives a catalogued command from run has the
\* model whose descriptor list the command was taken from, and the command goes
\* to the resolved instrument only, also when instruments of different models
\* share the alias.
C11_CommandMatchesModel ==
    \A t \in Threads :
        th[t].op = "run" =>
            /\ CallsHaveModel(th[t], instrument_collection)
            /\ CallsToResolved(th[t])

\* the transport outcomes that are timeouts
Timeouts == {"write_timeout", "read_timeout"}

\* C12: a transport timeout during a dispatch is never propagated as a
\* failure.  A request whose transport exchanges ended in responses or timeouts
\* only is answered success, a query's timeout counting as the empty response;
\* a request fails at the transport only when its last exchange ended in an
\* error that is no timeout.
C12_TimeoutsRecovered ==
    \A t \in Threads :
        (Dispatched(t) /\ th[t].pc = "done") =>
            /\ (\A j \in 1..Len(th[t].calls) :
                    th[t].calls[j].outcome \in Timeouts \cup {"resp"})
                => /\ th[t].resp.ok
                   /\ th[t].isq => th[t].resp.response = Reversed(th[t].calls)
            /\ ~th[t].resp.ok =>
                /\ th[t].calls # << >>
                /\ th[t].calls[Len(th[t].calls)].outcome \notin Timeouts \cup {"resp"}

\* thread t is in a dispatch handler (run, runCustom, lookup-descriptors-for)
\* past _get_mgr(): at its lookup, or in mgr.query / mgr.write
InDispatchHandler(t) ==
    /\ th[t].op \in {"run", "custom", "commands"}
    /\ th[t].pc \in {"body", "dispatch", "iter", "io"}

\* thread t is in find_instruments, about to call it, or about to build the
\* manager, whose constructor calls it
InDiscover(t) ==
    \/ Scanning(t)
    \/ th[t].pc = "body" /\ th[t].op = "scan"
    \/ th[t].pc = "idle" /\ ~mgr

\* C13: dispatch operations are read-only on the registry.  No step of a run,
\* runCustom or lookup-descriptors-for handler, whether the request succeeds or
\* fails, changes the instrument set or an alias; the registry changes only in
\* a step of find_instruments or of set_alias.
C13_DispatchReadOnly ==
    [][/\ \A t \in Threads :
            (InDispatchHandler(t) /\ th'[t] # th[t])
                => instrument_collection' = instrument_collection
       /\ instrument_collection' # instrument_collection =>
            \E t \in Threads :
                /\ th'[t] # th[t]
                /\ InDiscover(t) \/ (th[t].pc = "body" /\ th[t].op = "set_alias")]_vars

\* a run has failed on a transport error after its call reached an instrument,
\* which still answers to the alias
C13_Witness ==
    /\ th[1].op = "run" /\ th[1].pc = "done" /\ th[1].resp.status = 500
    /\ th[1].calls # << >>
    /\ th[1].calls[Len(th[1].calls)].outcome = "error"
    /\ th[1].calls[Len(th[1].calls)].target \in Matching(instrument_collection, th[1].alias)

(* ------------------------------------------------------------------ *)
(* Discovery and assignment on what discovery produces                *)
(* ------------------------------------------------------------------ *)

\* an identity exchange that ended in a response longer than 8 characters
Identified(o) == o.kind = "resp" /\ Len(o.text) > 8

\* one instrument for each of the first n addresses whose exchange, as seen by
\* the scan, was identified, in enumeration order
RECURSIVE Discovered(_, _)
Discovered(seen, n) ==
    IF n = 0 THEN << >>
    ELSE IF Identified(seen[n])
        THEN Append(Discovered(seen, n - 1), instrument_of(list_resources[n], seen[n].text))
        ELSE Discovered(seen, n - 1)

\* C14: discover() completes its scan over all enumerated addresses.  After
\* each address, whatever its exchange ended in, the scan goes on to the next
\* and the set holds, in enumeration order, one instrument for each address so
\* far whose identity response is longer than 8 characters and none for any
\* other; when api_scan returns every address has been visited.
C14_ScanCompletes ==
    \A t \in Threads :
        /\ Scanning(t) =>
            /\ Len(th[t].seen) = th[t].k - 1
            /\ th[t].k <= Len(list_resources) + 1
            /\ instrument_collection = Discovered(th[t].seen, Len(th[t].seen))
        /\ ScanReturned(t) =>
            /\ Len(th[t].seen) = Len(list_resources)
            /\ instrument_collection = Discovered(th[t].seen, Len(th[t].seen))

\* a scan has returned in which the first address raised an error and the
\* second answered with two parts only: the set holds the second's instrument
C14_Witness ==
    /\ ScanReturned(1)
    /\ th[1].seen[1].kind = "error"
    /\ th[1].seen[2].kind = "resp"
    /\ Len(instrument_collection) = 1
    /\ instrument_collection[1].serial = None
    /\ instrument_collection[1].visa_name = list_resources[2]

\* C15: assign_alias is total on the registry states discover() produces.
\* Whatever identity responses the scan accepted and whatever the arguments, an
\* api_set_alias that has run was answered success or failure, never by an
\* exception raised out of set_alias.
C15_AssignAliasTotal ==
    \A t \in Threads :
        (th[t].op = "set_alias" /\ th[t].pc = "done") =>
            AnswerIn(th[t].resp) \in {"ok", "failed"}

(* ------------------------------------------------------------------ *)
(* app.py: parse_param_defs and the building of a command, on their   *)
(* own: one descriptor and one set of supplied values per behaviour   *)
(* ------------------------------------------------------------------ *)

\* the command templates, raw parameter texts and supplied values tried
BuildTemplates ==
    { <<"V", " ", "{", "V", "}">>,
      <<"M", " ", "{", "A", "}", ",", "{", "B", "}">>,
      <<"M", " ", "{", "A", "}", ",", "{", "A", "}">>,
      <<"R">>,
      <<"{", "B", "}", "{", "A", "}", "{", "B", "}">> }

BuildRawSpecs ==
    { Empty,
      <<"n", "a", "n">>,
      <<" ", "N", "o", "n", "e", " ">>,
      <<"V">>,
      <<"V", ":", "V", ".", "1", "f">>,
      <<"A", "|", "B">>,
      <<"A", "|", "|", "B">>,
      <<"|", "A", "|", " ", "|", "B", ":">>,
      <<"A", ":", "p", ";", "q", "|", "B">>,
      <<"A", ";", "b", ":", "c">>,
      <<"A", ":", "b", ":", "c", ";", "d">>,
      <<"B", ":", " ", "x", " ", ";", " ", ";", "y">>,
      <<"|">> }

BuildTexts ==
    { <<"1", ".", "5">>,
      <<"x">>,
      <<"{", "a", "}">>,
      <<"\\">>,
      <<" ">> }

\* the rows load_scpi_definitions may have read: every template with every raw
\* parameter text, as a GET and as a SET
BuildCommands ==
    {ScpiCommand(<<"X">>, cmd, mode, raw) :
        cmd \in BuildTemplates, mode \in {"GET", "SET"}, raw \in BuildRawSpecs}

\* the "values" and "value" of the run request: <<values, single_value>>
BuildSupplied ==
    {<<Dict(<< <<(<<"V">>), v>> >>), Empty>> : v \in BuildTexts}
    \cup {<<Dict(<< <<(<<"A">>), v>>, <<(<<"B">>), (<<"2">>)>> >>), Empty>> :
            v \in {<<"x">>, <<"{", "a", "}">>}}
    \cup {<<Dict(<< <<(<<"B">>), (<<"2">>)>>, <<(<<"A">>), (<<"x">>)>> >>), Empty>>,
          <<Dict(<< <<(<<"B">>), (<<" ", "2">>)>>, <<(<<"A">>), (<<"x">>)>> >>), Empty>>,
          <<Dict(<< <<(<<"Z">>), (<<"\\">>)>>, <<(<<"A">>), (<<"x">>)>> >>), Empty>>,
          <<Dict(<< >>), Empty>>, <<NoValues, Empty>>,
          <<NoValues, (<<"7">>)>>, <<NoValues, (<<"{", "a", "}">>)>>}

NoPlan == [go |-> FALSE, query |-> FALSE, resp |-> NoResp]

\* a run request on its way through api_run once its descriptor c is found
BuildJob(c, supplied) ==
    [pc |-> "found", c |-> c, values |-> supplied[1], value |-> supplied[2],
     param_defs |-> << >>, plan |-> NoPlan]

InitBuild ==
    /\ mgr = TRUE
    /\ lock = 0
    /\ instrument_collection = << >>
    /\ \E c \in BuildCommands, supplied \in BuildSupplied :
        th = [t \in Threads |-> IF t = 1 THEN BuildJob(c, supplied) ELSE IdleThread]

\* api_run, line 332: param_defs = parse_param_defs(c.parameters_raw, c.cmd)
ParseStep(t) ==
    /\ th[t].pc = "found"
    /\ th' = [th EXCEPT ![t].pc = "parsed",
                        ![t].param_defs = parse_param_defs(th[t].c.parameters_raw, th[t].c.cmd)]
    /\ UNCHANGED <<mgr, lock, instrument_collection>>

\* api_run, lines 334-381: the values taken and the command built, up to the
\* call of mgr.query / mgr.write
BuildStep(t) ==
    /\ th[t].pc = "parsed"
    /\ th' = [th EXCEPT ![t].pc = "built",
                        ![t].plan = run_params(th[t].c, th[t].param_defs,
                                               th[t].values, th[t].value)]
    /\ UNCHANGED <<mgr, lock, instrument_collection>>

NextBuild == ParseStep(1) \/ BuildStep(1)

SpecBuild == InitBuild /\ [][NextBuild]_vars

(* ------------------------------------------------------------------ *)
(* Parsing and substitution                                           *)
(* ------------------------------------------------------------------ *)

\* the token {name}
Token(name) == <<"{">> \o name \o <<"}">>

HasToken(cmd, token) ==
    \E i \in 1..(Len(cmd) - Len(token) + 1) : SubSeq(cmd, i, i + Len(token) - 1) = token

\* cmd contains the placeholder {name} and no other
ExactlyToken(cmd, name) ==
    /\ HasToken(cmd, Token(name))
    /\ ~has_placeholder(replace_token(cmd, Token(name), Empty))

\* the values api_run builds from hold a non-blank value for name
Supplied(u, name) == ~value_missing(effective_values(u.values, u.value, u.param_defs), name)

\* C16: round trip of substitution.  For a descriptor whose parse is one free
\* parameter and whose template contains the placeholder {name} of that
\* parameter and no other, and for every non-blank supplied value, a command is
\* built and it contains no placeholder {...}.
C16_RoundTrip ==
    \A t \in Threads :
        (/\ th[t].pc = "built"
         /\ Len(th[t].param_defs) = 1
         /\ th[t].param_defs[1].kind = "free"
         /\ ExactlyToken(th[t].c.cmd, th[t].param_defs[1].name)
         /\ Supplied(th[t], th[t].param_defs[1].name)) =>
            /\ th[t].plan.go
            /\ ~has_placeholder(th[t].plan.resp.cmd)

\* the raw text is parsed by rule 1 (empty, nan or none) / by rule 2
Rule1(raw) == strip(raw) = Empty \/ lower(strip(raw)) \in {<<"n", "a", "n">>, <<"n", "o", "n", "e">>}
Rule2(raw) == ~Rule1(raw)

NonEmptyText(p) == p # Empty

\* the trimmed, non-empty parts of the raw text between its "|", in order
Parts(raw) == [i \in 1..Len(split(strip(raw), "|")) |-> strip(split(strip(raw), "|")[i])]
NonEmptyParts(raw) == SelectSeq(Parts(raw), NonEmptyText)

\* the text of a part before and after its first ":"
Colons(p) == {i \in 1..Len(p) : p[i] = ":"}
BeforeFirstColon(p) == IF Colons(p) = {} THEN p ELSE SubSeq(p, 1, Least(Colons(p)) - 1)
AfterFirstColon(p) == IF Colons(p) = {} THEN Empty ELSE SubSeq(p, Least(Colons(p)) + 1, Len(p))

\* defs has one definition for each part, in the order of the parts, an options
\* parameter where the text after the first ":" contains ";" and free elsewhere
PartsParsed(ps, defs) ==
    /\ Len(defs) = Len(ps)
    /\ \A i \in 1..Len(ps) :
        /\ defs[i].name = strip(BeforeFirstColon(ps[i]))
        /\ defs[i].kind = IF Contains(AfterFirstColon(ps[i]), ";") THEN "options" ELSE "free"

\* C17: for a raw parameter text handled by rule 2, parse_param_defs returns one
\* ParamDef for each non-empty trimmed part between "|", in the order of the
\* parts; empty parts give nothing; a part is an options parameter iff the text
\* after its first ":" contains ";", and a free parameter otherwise.
C17_OneParamPerPart ==
    \A t \in Threads :
        (th[t].pc = "parsed" /\ Rule2(th[t].c.parameters_raw)) =>
            PartsParsed(NonEmptyParts(th[t].c.parameters_raw), th[t].param_defs)

\* a raw text of four parts, two of them empty, has been parsed into two
\* definitions
C17_Witness ==
    /\ th[1].pc = "parsed"
    /\ Rule2(th[1].c.parameters_raw)
    /\ Len(Parts(th[1].c.parameters_raw)) = 4
    /\ Len(NonEmptyParts(th[1].c.parameters_raw)) = 2
    /\ Len(th[1].param_defs) = 2

\* the names of q without repetition, in order of first occurrence
RECURSIVE Distinct(_)
Distinct(q) ==
    IF q = << >> THEN << >>
    ELSE IF \E i \in 1..(Len(q) - 1) : q[i] = q[Len(q)]
        THEN Distinct(SubSeq(q, 1, Len(q) - 1))
        ELSE Append(Distinct(SubSeq(q, 1, Len(q) - 1)), q[Len(q)])

\* C18: for a raw parameter text that is empty, nan or none, parse_param_defs
\* returns one free parameter for each distinct placeholder name of the
\* template, in order of first occurrence, and never two definitions with the
\* same name.
C18_OnePerDistinctName ==
    \A t \in Threads :
        (th[t].pc = "parsed" /\ Rule1(th[t].c.parameters_raw)) =>
            /\ [i \in 1..Len(th[t].param_defs) |-> th[t].param_defs[i].name]
                    = Distinct(first_placeholder_names(th[t].c.cmd))
            /\ \A i, j \in 1..Len(th[t].param_defs) :
                    th[t].param_defs[i].name = th[t].param_defs[j].name => i = j
            /\ \A i \in 1..Len(th[t].param_defs) : th[t].param_defs[i].kind = "free"

(* ------------------------------------------------------------------ *)
(* Dispatch against concurrent discovery                              *)
(* ------------------------------------------------------------------ *)

\* thread t is in the loop of mgr.query / mgr.write
InLoop(t) == th[t].pc \in {"iter", "io"}

\* thread u takes the step in which its find_instruments starts
StartsScan(u) == th[u].pc \notin {"ctor", "scan"} /\ th'[u].pc \in {"ctor", "scan"}

\* the transport call thread t makes in this step
IssuedCall(t) == th'[t].calls[Len(th'[t].calls)]

\* C19: the stale-reference race.  A discover() that starts while another
\* request's query / write loop is running neither stops nor redirects that
\* loop: it goes on over the list it started on, which from then on is not the
\* registry's list; a loop's list stops being the registry's by another
\* request's discover() only; and every transport call the loop issues goes to
\* an instrument of the list it iterates that carries the alias, also when that
\* list has been replaced.  (That such a call is issued after the discover()
\* has returned is the witness.)
C19_StaleReference ==
    [][\A t \in Threads :
        /\ (InLoop(t) /\ \E u \in Threads \ {t} : StartsScan(u)) =>
            /\ th'[t].pc = th[t].pc
            /\ th'[t].i = th[t].i
            /\ ~th'[t].itLive
            /\ th'[t].itList = IterList(t)
        /\ (InLoop(t) /\ th[t].itLive /\ th'[t].pc \in {"iter", "io"} /\ ~th'[t].itLive) =>
            \E u \in Threads \ {t} : StartsScan(u)
        /\ (th[t].pc = "io" /\ th'[t].calls # th[t].calls) =>
            /\ IssuedCall(t).live = th[t].itLive
            /\ IssuedCall(t).cmd = th[t].cmd
            /\ alias_matches(IterList(t)[IssuedCall(t).target], th[t].alias)]_vars

\* request 1 has issued a transport call from a loop over a replaced list after
\* request 2's api_scan had returned; the registry's current set is the one
\* that scan built, in which the alias resolves to nothing
C19_Witness ==
    /\ th[1].calls # << >>
    /\ ~th[1].calls[Len(th[1].calls)].live
    /\ th[1].calls[Len(th[1].calls)].scanned
    /\ th[2].pc = "done" /\ th[2].op = "scan"
    /\ th[1].calls[Len(th[1].calls)].outcome = "resp"
    /\ instrument_collection # << >>
    /\ Matching(instrument_collection, th[1].alias) = {}

\* thread t is in the transport part of a run / custom request: the call of
\* mgr.query / mgr.write, its loop and its exchanges
InDispatch(t) == th[t].op \in {"run", "custom"} /\ th[t].pc \in {"dispatch", "iter", "io"}

\* C20: dispatch I/O never holds the lock.  While a run or custom request is in
\* its transport query / write the lock is not its own: the region is free, or
\* it is held by another request that has entered it (a discover() or an
\* assign_alias()), which runs there without waiting for the I/O.
C20_IoOutsideLock ==
    \A t \in Threads :
        InDispatch(t) =>
            /\ lock # t
            /\ lock # 0 => (InRegion(lock) /\ ~InDispatch(lock))

\* while request 1 is in a transport exchange, request 2's discover() has
\* entered the region after 1's loop began, has run to its end and has left
\* the region
C20_Witness ==
    /\ InDispatch(1)
    /\ th[1].pc = "io"
    /\ ~th[1].itLive
    /\ th[2].pc = "done" /\ th[2].op = "scan" /\ th[2].resp.ok
    /\ Len(th[2].seen) = Len(list_resources)
    /\ lock = 0

(* ------------------------------------------------------------------ *)
(* The leftover step, and GET against SET                             *)
(* ------------------------------------------------------------------ *)

\* the values api_run builds the command of request u from
ValuesOf(u) == effective_values(u.values, u.value, u.param_defs)

\* the working command of request u after the named substitutions of all its
\* parameter definitions (a Built, a MissingValue or a ReError)
AfterNamed(u) ==
    IF u.c.mode = "GET" THEN get_loop(u.param_defs, ValuesOf(u), strip(u.c.cmd))
                        ELSE set_loop(u.param_defs, ValuesOf(u), strip(u.c.cmd))

\* the command is dispatched as cmd
DispatchedAs(u, cmd) == u.plan.go /\ u.plan.resp.cmd = cmd

\* what C21 asks of the leftover step for the working command named and the
\* values vals
LeftoverReplaced(u, named, vals) ==
    IF has_placeholder(named) /\ vals.items # << >>
        THEN DispatchedAs(u, replace_placeholders(named, strip(vals.items[1][2])))
        ELSE DispatchedAs(u, named)

\* C21: the leftover-placeholder fallback.  When the named substitutions of all
\* parameter definitions have been made and the working command still contains
\* a placeholder {...}, every remaining placeholder is replaced by the trimmed
\* first value of the values map in its insertion order, and the result is
\* dispatched; with nothing left over, or with an empty values map, the working
\* command is dispatched as it is.
C21_LeftoverFallback ==
    \A t \in Threads :
        (/\ th[t].pc = "built"
         /\ th[t].param_defs # << >>
         /\ ValuesOf(th[t]).kind = "dict"
         /\ AfterNamed(th[t]).status = "ok") =>
            LeftoverReplaced(th[t], AfterNamed(th[t]).cmd, ValuesOf(th[t]))

\* the descriptor c with the other mode
OtherMode(c) == [c EXCEPT !.mode = IF c.mode = "GET" THEN "SET" ELSE "GET"]

\* what api_run builds for request u were its descriptor of the other mode
OtherPlan(u) == run_params(OtherMode(u.c), u.param_defs, u.values, u.value)

\* the two plans give the same answer or the same command, and differ only in
\* going through query or through write
SameBuild(plan, other, mode) ==
    /\ other.go = plan.go
    /\ other.resp = plan.resp
    /\ plan.go => (plan.query = (mode = "GET") /\ other.query = (mode # "GET"))

\* C22: GET and SET build the command identically.  For the same template, the
\* same parameter definitions and the same values, what the GET path produces
\* (the command, or the MissingValue answer) is what the SET path produces, and
\* the two differ only in dispatching through query or through write; with an
\* empty parameter list both send the template as it is.
C22_GetEqualsSet ==
    \A t \in Threads :
        th[t].pc = "built" =>
            /\ SameBuild(th[t].plan, OtherPlan(th[t]), th[t].c.mode)
            /\ (th[t].param_defs = << >> /\ ValuesOf(th[t]).kind = "dict") =>
                    DispatchedAs(th[t], strip(th[t].c.cmd))

\* a SET has been built from two parameter definitions with its leftover
\* placeholders replaced, and a GET of the same descriptor builds the same
C22_Witness ==
    /\ th[1].pc = "built"
    /\ th[1].c.mode = "SET"
    /\ Len(th[1].param_defs) = 2
    /\ th[1].plan.go
    /\ has_placeholder(AfterNamed(th[1]).cmd)
    /\ ~has_placeholder(th[1].plan.resp.cmd)
    /\ OtherPlan(th[1]).resp.cmd = th[1].plan.resp.cmd

====
